---- MODULE Spec2Model ----
(***************************************************************************)
(* Model of src/src/util/factory.js: the ingestion, validation and         *)
(* assembly pipeline of the radar (GoogleSheetInput, GoogleSheet,          *)
(* CSVDocument, plotRadar, plotErrorMessage, plotUnauthorizedErrorMessage).*)
(* Strings are sequences of one-character strings, so that trimming,       *)
(* case conversion and suffix tests are computed and not assumed.          *)
(***************************************************************************)
EXTENDS Integers, Sequences, FiniteSets, TLC

VARIABLES
    route,      \* outcome of GoogleSheetInput.build: "start", "csv", "sheet", "form", "crash"
    query,      \* what build read from the address: domainName and queryParams.sheetId
    reqName,    \* queryParams.sheetName (NoName when the parameter is absent)
    validated,  \* result of sheet.validate: "pending", "ok", "notfound", "other"
    att,        \* the build attempts: 0 is the page-load build, i > 0 the i-th switch-account click
    clicks,     \* number of switch-account clicks so far
    loading,    \* whether a '.loading' element is in the page
    title,      \* document.title
    logged,     \* number of console.error calls
    auths,      \* number of calls of GoogleSheet.authenticate
    last        \* the last run of a data callback: its input and what it did

vars == <<route, query, reqName, validated, att, clicks, loading, title, logged, auths, last>>

(***************************** bounds ***************************************)
MaxRows == 5
MaxClicks == 1
MaxRowsAgain == 1
MaxRowsVariant == 2

(***************************** strings **************************************)
Upper == <<"A","B","C","D","E","F","G","H","I","J","K","L","M","N","O","P","Q","R","S","T","U","V","W","X","Y","Z">>
Lower == <<"a","b","c","d","e","f","g","h","i","j","k","l","m","n","o","p","q","r","s","t","u","v","w","x","y","z">>

LowerOf == [c \in {Upper[i] : i \in 1..26} |-> Lower[CHOOSE i \in 1..26 : Upper[i] = c]]
UpperOf == [c \in {Lower[i] : i \in 1..26} |-> Upper[CHOOSE i \in 1..26 : Lower[i] = c]]

toLowerChar(c) == IF c \in DOMAIN LowerOf THEN LowerOf[c] ELSE c
toUpperChar(c) == IF c \in DOMAIN UpperOf THEN UpperOf[c] ELSE c

toLowerCase(s) == [i \in 1..Len(s) |-> toLowerChar(s[i])]

endsWith(s, suffix) ==
    /\ Len(suffix) <= Len(s)
    /\ SubSeq(s, Len(s) - Len(suffix) + 1, Len(s)) = suffix

IsSpace(c) == c = " "

RECURSIVE trimStart(_)
trimStart(s) == IF s # <<>> /\ IsSpace(Head(s)) THEN trimStart(Tail(s)) ELSE s

RECURSIVE trimEnd(_)
trimEnd(s) ==
    IF s # <<>> /\ IsSpace(s[Len(s)]) THEN trimEnd(SubSeq(s, 1, Len(s) - 1)) ELSE s

trim(s) == trimEnd(trimStart(s))

(***************************** raw data *************************************)
cName        == <<"n","a","m","e">>
cRing        == <<"r","i","n","g">>
cQuadrant    == <<"q","u","a","d","r","a","n","t">>
cIsNew       == <<"i","s","N","e","w">>
cTopic       == <<"t","o","p","i","c">>
cDescription == <<"d","e","s","c","r","i","p","t","i","o","n">>

\* the column names the pipeline reads from a row
Fields == <<cName, cRing, cQuadrant, cIsNew, cTopic, cDescription>>

AllColumns  == <<cName, cRing, cQuadrant, cIsNew, cTopic, cDescription>>
NoRingCols  == <<cName, cQuadrant, cIsNew, cTopic, cDescription>>
NoColumns   == <<>>
GoodColumnSets == {AllColumns}
\* complete column sets of another make: without the optional topic column,
\* and in another order
NoTopicCols  == <<cName, cRing, cQuadrant, cIsNew, cDescription>>
PermutedCols == <<cDescription, cQuadrant, cTopic, cName, cIsNew, cRing>>
VariantColumnSets == {NoTopicCols, PermutedCols}
BadColumnSets  == {NoRingCols, NoColumns}

Hold   == <<"H","o","l","d">>
Adopt  == <<"A","d","o","p","t">>
Trial  == <<"T","r","i","a","l">>
Assess == <<"A","s","s","e","s","s">>
Watch  == <<"W","a","t","c","h">>
qTools == <<"t","o","o","l","s">>
qInfra == <<"i","n","F","r","a">>
qTwo   == <<"2">>
sTRUE  == <<"T","R","U","E">>
sTrue  == <<"t","r","u","e">>
sFalse == <<"f","a","l","s","e">>

Cells(n, r, q, w) == <<n, r, q, w, <<>>, <<"d">>>>

\* the rows a document can hold, as cell lists in the order of Fields
Pool == <<
    Cells(<<"T","1">>,     Hold,   qTools, sTRUE),
    Cells(<<" ","T","2">>, Adopt,  qTools, sFalse),
    Cells(<<"T","3">>,     Trial,  qInfra, sTrue),
    Cells(<<"T","4">>,     Assess, qTwo,   sFalse),
    Cells(<<"T","5">>,     Watch,  <<" ","t","o","o","l","s">>, sTrue),
    Cells(<<" ">>,         Adopt,  qInfra, <<"n","o">>) >>

PoolIds == 1..Len(Pool)

\* a document's rows: distinct pool rows in any order
RowIdSeqs(n) ==
    UNION {{s \in [1..k -> PoolIds] : \A i, j \in 1..k : i # j => s[i] # s[j]} : k \in 0..n}

\* the 1-based position of the first x in seq, 0 when there is none
RECURSIVE indexFrom(_, _, _)
indexFrom(seq, x, i) ==
    IF i > Len(seq) THEN 0
    ELSE IF seq[i] = x THEN i
    ELSE indexFrom(seq, x, i + 1)

IndexOf(seq, x) == indexFrom(seq, x, 1)

Has(seq, x) == IndexOf(seq, x) # 0

\* the cell of pool row id under column c
CellOf(id, c) == Pool[id][IndexOf(Fields, c)]

\* keyed-object shape (Tabletop, d3.csv): column name -> cell, for the columns present
KeyedRow(id, columns) ==
    [c \in {columns[i] : i \in 1..Len(columns)} |-> CellOf(id, c)]

\* header+array shape (Sheets API): the cells in header order
ArrayRow(id, header) == [i \in 1..Len(header) |-> CellOf(id, header[i])]

KeyedRows(ids, columns) == [i \in 1..Len(ids) |-> KeyedRow(ids[i], columns)]

\* the value list of a protected sheet: the header row, then the data rows
ValuesOf(ids, header) == <<header>> \o [i \in 1..Len(ids) |-> ArrayRow(ids[i], header)]

\* the columns a document must have
RequiredFields == {cName, cRing, cQuadrant, cIsNew, cDescription}

(***************************** exceptions ***********************************)
NoException == [type |-> "none", message |-> "", status |-> 0]
MalformedDataError(m) == [type |-> "MalformedDataError", message |-> m, status |-> 0]
SheetNotFoundError(m) == [type |-> "SheetNotFoundError", message |-> m, status |-> 0]
TypeError(m)          == [type |-> "TypeError", message |-> m, status |-> 0]
\* the error object the Sheets API hands to the error callback
ResponseError(st)     == [type |-> "ResponseError", message |-> "response", status |-> st]

TOO_MANY_RINGS  == "TOO_MANY_RINGS"
MISSING_HEADERS == "MISSING_HEADERS"
MISSING_CONTENT == "MISSING_CONTENT"
SHEET_NOT_FOUND == "SHEET_NOT_FOUND"

(***************************** ContentValidator *****************************)
\* new ContentValidator(columnNames): the call sites hand it the column names
\* and nothing else, so both checks are functions of the column names.
trimmedColumns(columnNames) == [i \in 1..Len(columnNames) |-> trim(columnNames[i])]

verifyContent(columnNames) ==
    IF Len(columnNames) = 0 THEN MalformedDataError(MISSING_CONTENT) ELSE NoException

verifyHeaders(columnNames) ==
    IF \E c \in RequiredFields : ~Has(trimmedColumns(columnNames), c)
    THEN MalformedDataError(MISSING_HEADERS)
    ELSE NoException

\* contentValidator.verifyContent(); contentValidator.verifyHeaders()
validate(columnNames) ==
    IF verifyContent(columnNames) # NoException
    THEN verifyContent(columnNames)
    ELSE verifyHeaders(columnNames)

(***************************** InputSanitizer *******************************)
FieldOf(row, c) == IF c \in DOMAIN row THEN trim(row[c]) ELSE <<>>

\* keyed-object shape
sanitize(rawBlip) ==
    [name        |-> FieldOf(rawBlip, cName),
     ring        |-> FieldOf(rawBlip, cRing),
     quadrant    |-> FieldOf(rawBlip, cQuadrant),
     isNew       |-> FieldOf(rawBlip, cIsNew),
     topic       |-> FieldOf(rawBlip, cTopic),
     description |-> FieldOf(rawBlip, cDescription)]

CellAt(rawBlip, header, c) ==
    IF Has(header, c) /\ IndexOf(header, c) <= Len(rawBlip)
    THEN trim(rawBlip[IndexOf(header, c)])
    ELSE <<>>

\* header+array shape
sanitizeForProtectedSheet(rawBlip, header) ==
    [name        |-> CellAt(rawBlip, header, cName),
     ring        |-> CellAt(rawBlip, header, cRing),
     quadrant    |-> CellAt(rawBlip, header, cQuadrant),
     isNew       |-> CellAt(rawBlip, header, cIsNew),
     topic       |-> CellAt(rawBlip, header, cTopic),
     description |-> CellAt(rawBlip, header, cDescription)]

(***************************** models ***************************************)
Ring(name, order) == [name |-> name, order |-> order]

Blip(name, ring, isNew, topic, description) ==
    [name |-> name, ring |-> ring, isNew |-> isNew, topic |-> topic,
     description |-> description]

Quadrant(name) == [name |-> name, blips |-> <<>>]

\* quadrant.add(blip)
add(quadrant, blip) == [quadrant EXCEPT !.blips = Append(@, blip)]

NoName == <<>>
NewRadar == [quadrants |-> <<>>, alternatives |-> <<>>, currentSheet |-> NoName]
addQuadrant(radar, quadrant) == [radar EXCEPT !.quadrants = Append(@, quadrant)]
addAlternative(radar, sheetName) == [radar EXCEPT !.alternatives = Append(@, sheetName)]
setCurrentSheet(radar, sheetName) == [radar EXCEPT !.currentSheet = sheetName]

NoRadar == [quadrants |-> <<>>, alternatives |-> <<>>, currentSheet |-> <<"-">>]

(***************************** lodash ***************************************)
\* _.capitalize: first character to upper case, the remaining to lower case
capitalize(s) ==
    IF s = <<>> THEN s ELSE <<toUpperChar(Head(s))>> \o toLowerCase(Tail(s))

RECURSIVE pick(_, _, _)
pick(seq, keep, i) ==
    IF i > Len(seq) THEN <<>>
    ELSE (IF i \in keep THEN <<seq[i]>> ELSE <<>>) \o pick(seq, keep, i + 1)

\* _.uniqBy(blips, 'ring'): the first blip of every ring value, in order
uniqByRing(blips) ==
    pick(blips, {i \in 1..Len(blips) : \A j \in 1..(i - 1) : blips[j].ring # blips[i].ring}, 1)

\* _.map(_.uniqBy(blips, 'ring'), 'ring')
ringsOf(blips) ==
    LET uniq == uniqByRing(blips) IN [i \in 1..Len(uniq) |-> uniq[i].ring]

(***************************** plotRadar ************************************)
maxRings == 4

dotCsv == <<".","c","s","v">>

stripCsv(t) == IF endsWith(t, dotCsv) THEN SubSeq(t, 1, Len(t) - 4) ELSE t

\* mutant: the comparison is off by one, a fifth ring is accepted
tooManyRingsLate(rings) == \E i \in 0..(Len(rings) - 1) : i = maxRings + 1

\* the loop over rings throws when it reaches index maxRings (0-based)
tooManyRings(rings) == \E i \in 0..(Len(rings) - 1) : i = maxRings

\* mutant: the rings are numbered from the last one seen
ringIndexReversed(rings, ringName) == Len(rings) - IndexOf(rings, ringName)

\* the index _.each passes for ringName
ringIndex(rings, ringName) == IndexOf(rings, ringName) - 1

ringMapOf(rings) ==
    [n \in {rings[i] : i \in 1..Len(rings)} |-> Ring(n, ringIndex(rings, n))]

\* quadrants is an object keyed by blip.quadrant; it is kept as the list of
\* its (key, Quadrant) pairs in insertion order
RECURSIVE keyFrom(_, _, _)
keyFrom(quadrants, key, i) ==
    IF i > Len(quadrants) THEN 0
    ELSE IF quadrants[i].key = key THEN i
    ELSE keyFrom(quadrants, key, i + 1)

quadrantKey(quadrants, key) == keyFrom(quadrants, key, 1)

\* mutant: the test "if (!quadrants[blip.quadrant])" is lost, every blip
\* starts its quadrant afresh
placeBlipFresh(quadrants, ringMap, blip) ==
    LET fresh == [key |-> blip.quadrant,
                  quadrant |-> add(Quadrant(capitalize(blip.quadrant)),
                                   Blip(blip.name, ringMap[blip.ring],
                                        toLowerCase(blip.isNew) = sTrue,
                                        blip.topic, blip.description))]
        k == quadrantKey(quadrants, blip.quadrant)
    IN  IF k = 0 THEN Append(quadrants, fresh) ELSE [quadrants EXCEPT ![k] = fresh]

\* one iteration of _.each(blips, ...)
placeBlip(quadrants, ringMap, blip) ==
    LET made == IF quadrantKey(quadrants, blip.quadrant) = 0
                THEN Append(quadrants, [key |-> blip.quadrant,
                                        quadrant |-> Quadrant(capitalize(blip.quadrant))])
                ELSE quadrants
        k == quadrantKey(made, blip.quadrant)
    IN  [made EXCEPT ![k].quadrant =
            add(@, Blip(blip.name, ringMap[blip.ring],
                        toLowerCase(blip.isNew) = sTrue, blip.topic, blip.description))]

RECURSIVE placeAll(_, _, _, _)
placeAll(quadrants, ringMap, blips, i) ==
    IF i > Len(blips) THEN quadrants
    ELSE placeAll(placeBlip(quadrants, ringMap, blips[i]), ringMap, blips, i + 1)

Digits == <<"0","1","2","3","4","5","6","7","8","9">>
IsDigit(c) == Has(Digits, c)

\* a property key that is an array index: the canonical decimal form of an
\* integer (no leading zero)
isArrayIndex(key) ==
    /\ key # <<>>
    /\ \A i \in 1..Len(key) : IsDigit(key[i])
    /\ (Len(key) > 1 => key[1] # "0")

RECURSIVE arrayIndexValue(_)
arrayIndexValue(key) ==
    IF key = <<>> THEN 0
    ELSE 10 * arrayIndexValue(SubSeq(key, 1, Len(key) - 1)) + (IndexOf(Digits, key[Len(key)]) - 1)

\* the own keys of the object in the order _.each visits them: the array
\* indices in ascending order, then the other keys in insertion order
ownKeys(quadrants) ==
    LET ints == {i \in 1..Len(quadrants) : isArrayIndex(quadrants[i].key)}
        rank(i) == Cardinality({j \in ints :
                        arrayIndexValue(quadrants[j].key) < arrayIndexValue(quadrants[i].key)}) + 1
        sorted == [p \in 1..Cardinality(ints) |-> quadrants[CHOOSE i \in ints : rank(i) = p]]
    IN  sorted \o pick(quadrants, (1..Len(quadrants)) \ ints, 1)

RECURSIVE addQuadrants(_, _, _)
addQuadrants(radar, quadrants, i) ==
    IF i > Len(quadrants) THEN radar
    ELSE addQuadrants(addQuadrant(radar, quadrants[i].quadrant), quadrants, i + 1)

RECURSIVE addAlternatives(_, _, _)
addAlternatives(radar, names, i) ==
    IF i > Len(names) THEN radar
    ELSE addAlternatives(addAlternative(radar, names[i]), names, i + 1)

\* mutant: the renderer is constructed before the sheet names are set
buildRadarEarly(blips, currentRadarName, alternativeRadars) ==
    addQuadrants(NewRadar, ownKeys(placeAll(<<>>, ringMapOf(ringsOf(blips)), blips, 1)), 1)

\* the Radar as it stands when GraphingRadar is constructed
buildRadar(blips, currentRadarName, alternativeRadars) ==
    setCurrentSheet(
        addAlternatives(
            addQuadrants(NewRadar, ownKeys(placeAll(<<>>, ringMapOf(ringsOf(blips)), blips, 1)), 1),
            alternativeRadars, 1),
        currentRadarName)

\* what one call of plotRadar does: the title it sets, the exception it throws
\* (NoException when it returns), whether it got to the renderer and with what
plotRadar(t, blips, currentRadarName, alternativeRadars) ==
    IF tooManyRings(ringsOf(blips))
    THEN [title |-> stripCsv(t), exception |-> MalformedDataError(TOO_MANY_RINGS),
          rendered |-> FALSE, radar |-> NoRadar]
    ELSE [title |-> stripCsv(t), exception |-> NoException,
          rendered |-> TRUE,
          radar |-> buildRadar(blips, currentRadarName, alternativeRadars)]

(***************************** titles and URLs ******************************)
DefaultTitle == <<"G","e","s","t","a","l","t","e"," ","u","n","s","e","r","e"," ","Z","u","k","u","n","f","t">>
BlankTitle   == <<>>
DocName      == <<"D","o","c">>
Dash         == <<" ","-"," ">>
CSVFile      == <<"C","S","V"," ","F","i","l","e">>
S1 == <<"S","1">>
S2 == <<"b",".","c","s","v">>
S9 == <<"S","9">>
FoundSheetNames == <<S1, S2>>
ReqNames == {NoName, S2, S9}

Undefined == <<"undefined">>
Null      == <<"null">>
GoogleDomain == <<"g","o","o","g","l","e",".","c","o","m">>
OtherDomain  == <<"x",".","d","e">>
CsvUrl   == <<"h",":","/","/","x",".","d","e","/","m","y","+","r",".","c","s","v">>
SheetUrl == <<"h",":","/","/","g","o","o","g","l","e",".","c","o","m","/","d","/","1">>
Domains  == {Null, GoogleDomain, OtherDomain}
\* no sheetId parameter, an empty one, a CSV address, a spreadsheet address
SheetIds == {Undefined, <<>>, CsvUrl, SheetUrl}

\* url.replace(/\+/g, ' ')
replacePlus(url) == [i \in 1..Len(url) |-> IF url[i] = "+" THEN " " ELSE url[i]]

\* decodeURIComponent, for the escapes %20 and %2F
RECURSIVE decodeURIComponent(_)
decodeURIComponent(s) ==
    IF s = <<>> THEN <<>>
    ELSE IF Len(s) >= 3 /\ SubSeq(s, 1, 3) = <<"%","2","0">>
         THEN <<" ">> \o decodeURIComponent(SubSeq(s, 4, Len(s)))
    ELSE IF Len(s) >= 3 /\ SubSeq(s, 1, 3) = <<"%","2","F">>
         THEN <<"/">> \o decodeURIComponent(SubSeq(s, 4, Len(s)))
    ELSE <<Head(s)>> \o decodeURIComponent(Tail(s))

IsSlash(c) == c = "/" \/ c = "\\"

\* the match of /([^\\/]+)$/ : the run of non-slash characters that ends the string
RECURSIVE lastSegment(_)
lastSegment(s) ==
    IF s = <<>> \/ IsSlash(s[Len(s)]) THEN <<>>
    ELSE lastSegment(SubSeq(s, 1, Len(s) - 1)) \o <<s[Len(s)]>>

FileName(url) ==
    IF lastSegment(decodeURIComponent(replacePlus(url))) # <<>>
    THEN lastSegment(decodeURIComponent(replacePlus(url)))
    ELSE url

(***************************** error pages **********************************)
GENERIC == "Mist. Leider konnten wir Deine Google Tabellen Daten nicht finden. "

\* mutant: the message of every exception is appended to the page's text
errorMessageLeaky(exception) ==
    IF exception.type = "SheetNotFoundError" THEN <<exception.message>>
    ELSE <<GENERIC, exception.message>>

\* mutant: the message of a MalformedDataError is dropped
errorMessageSwallowed(exception) ==
    IF exception.type = "SheetNotFoundError" THEN <<exception.message>> ELSE <<GENERIC>>

\* the message plotErrorMessage shows for an exception
errorMessage(exception) ==
    IF exception.type = "MalformedDataError" THEN <<GENERIC, exception.message>>
    ELSE IF exception.type = "SheetNotFoundError" THEN <<exception.message>>
    ELSE <<GENERIC>>

\* whether plotErrorMessage logs the exception with console.error
isLogged(exception) ==
    exception.type \notin {"MalformedDataError", "SheetNotFoundError"}

\* mutant: every client error is taken for a denial
isUnauthorizedAny4xx(error) == error.status >= 400 /\ error.status < 500

\* the branch of the error callback of processSheetResponse
isUnauthorized(error) == error.status = 403

(***************************** state ****************************************)
NoParent == -1

\* an attempt: where it stands (pc), the force flag authenticate was called
\* with, the attempt whose button started it, the closure variable sheetName,
\* how it ended, the page it put up with its message, and the error it was
\* classified from (exc: the exception plotErrorMessage received; status: the
\* status the error callback saw)
Idle == [pc |-> "idle", force |-> FALSE, parent |-> NoParent, sheetName |-> NoName,
         outcome |-> "none", page |-> "none", msg |-> <<>>,
         exc |-> NoException, status |-> 0]

NoRun == [attempt |-> NoParent, via |-> "none", delivered |-> FALSE,
          columns |-> NoColumns, ids |-> <<>>,
          empty |-> FALSE, validations |-> 0, sanitized |-> 0,
          exception |-> NoException, rendered |-> FALSE, radar |-> NoRadar,
          title |-> BlankTitle]

Attempts == 0..MaxClicks

NoQuery == [domainName |-> <<>>, sheetId |-> <<>>]

Init ==
    /\ route = "start"
    /\ query = NoQuery
    /\ reqName = NoName
    /\ validated = "none"
    /\ att = [i \in Attempts |-> Idle]
    /\ clicks = 0
    /\ loading = FALSE
    /\ title = BlankTitle
    /\ logged = 0
    /\ auths = 0
    /\ last = NoRun

\* the inputs of a data callback: the column names and the rows of the document
DataInputs ==
    {[columns |-> c, ids |-> s] : c \in GoodColumnSets, s \in RowIdSeqs(MaxRows)}
    \cup {[columns |-> c, ids |-> s] : c \in VariantColumnSets, s \in RowIdSeqs(MaxRowsVariant)}
    \cup {[columns |-> c, ids |-> s] : c \in BadColumnSets, s \in RowIdSeqs(1)}

\* the documents served to an attempt started by a switch-account click
AgainInputs ==
    {[columns |-> c, ids |-> s] : c \in GoodColumnSets, s \in RowIdSeqs(MaxRowsAgain)}
    \cup {[columns |-> c, ids |-> s] : c \in BadColumnSets, s \in RowIdSeqs(1)}

InputsOf(i) == IF i = 0 THEN DataInputs ELSE AgainInputs

(***************************** GoogleSheetInput.build ***********************)
dispatch(domainName, sheetId) ==
    IF domainName # Null /\ sheetId = Undefined THEN "crash"
    ELSE IF domainName # Null /\ endsWith(sheetId, <<"c","s","v">>) THEN "csv"
    ELSE IF domainName # Null /\ endsWith(domainName, GoogleDomain)
            /\ sheetId # Undefined /\ sheetId # <<>> THEN "sheet"
    ELSE "form"

Build ==
    /\ route = "start"
    /\ \E domainName \in Domains, sheetId \in SheetIds, sheetName \in ReqNames :
        LET r == dispatch(domainName, sheetId) IN
        /\ route' = r
        /\ query' = [domainName |-> domainName, sheetId |-> sheetId]
        /\ reqName' = IF r = "sheet" THEN sheetName ELSE NoName
        /\ loading' = (r \in {"csv", "sheet"})
        /\ title' = IF r = "crash" THEN title ELSE DefaultTitle
        /\ validated' = IF r = "sheet" THEN "pending" ELSE validated
        /\ att' = [att EXCEPT ![0].pc = IF r = "csv" THEN "csv"
                                        ELSE IF r = "sheet" THEN "validating"
                                        ELSE "idle",
                              ![0].sheetName = IF r = "sheet" THEN sheetName ELSE NoName]
    /\ UNCHANGED <<clicks, logged, auths, last>>

(***************************** the pages ************************************)
\* mutant: the page is put up and the '.loading' element is left in place
PlotErrorMessageKeepsLoading(i, exception, name) ==
    /\ att' = [att EXCEPT ![i].pc = "done", ![i].outcome = "error",
                          ![i].page = "error", ![i].msg = errorMessage(exception),
                          ![i].exc = exception, ![i].status = exception.status,
                          ![i].sheetName = name]
    /\ title' = DefaultTitle
    /\ loading' = loading
    /\ logged' = IF isLogged(exception) THEN logged + 1 ELSE logged

\* plotErrorMessage(exception), called for attempt i
PlotErrorMessage(i, exception, name) ==
    /\ att' = [att EXCEPT ![i].pc = "done", ![i].outcome = "error",
                          ![i].page = "error", ![i].msg = errorMessage(exception),
                          ![i].exc = exception, ![i].status = exception.status,
                          ![i].sheetName = name]
    /\ title' = DefaultTitle
    /\ loading' = FALSE
    /\ logged' = IF isLogged(exception) THEN logged + 1 ELSE logged

\* plotUnauthorizedErrorMessage(), called for attempt i
PlotUnauthorizedErrorMessage(i, error) ==
    /\ att' = [att EXCEPT ![i].pc = "done", ![i].outcome = "unauthorized",
                          ![i].page = "unauthorized", ![i].status = error.status]
    /\ title' = DefaultTitle
    /\ loading' = FALSE
    /\ logged' = logged

\* plotRadar returned: the renderer has the Radar
Plotted(i, run, name) ==
    /\ att' = [att EXCEPT ![i].pc = "done", ![i].outcome = "rendered",
                          ![i].sheetName = name]
    /\ title' = run.title
    /\ loading' = FALSE
    /\ logged' = logged

\* mutant: the error page does not set the title again, the title plotRadar
\* set before it threw stays
FinishTitleStays(i, run, name) ==
    /\ last' = run
    /\ IF run.exception # NoException
       THEN /\ att' = [att EXCEPT ![i].pc = "done", ![i].outcome = "error",
                                 ![i].page = "error", ![i].msg = errorMessage(run.exception),
                                 ![i].exc = run.exception, ![i].status = run.exception.status,
                                 ![i].sheetName = name]
            /\ title' = IF run.title # BlankTitle THEN run.title ELSE DefaultTitle
            /\ loading' = FALSE
            /\ logged' = IF isLogged(run.exception) THEN logged + 1 ELSE logged
       ELSE Plotted(i, run, name)

\* the end of a data callback
Finish(i, run, name) ==
    /\ last' = run
    /\ IF run.exception # NoException
       THEN PlotErrorMessage(i, run.exception, name)
       ELSE Plotted(i, run, name)

(***************************** the data callbacks ***************************)
\* a callback that threw before plotRadar was called
threw(i, via, delivered, input, validations, exception) ==
    [attempt |-> i, via |-> via, delivered |-> delivered,
     columns |-> input.columns, ids |-> input.ids,
     empty |-> FALSE, validations |-> validations, sanitized |-> 0,
     exception |-> exception, rendered |-> FALSE, radar |-> NoRadar,
     title |-> BlankTitle]

\* a callback that validated, sanitized every row and called plotRadar
plotted(i, via, input, empty, validations, t, blips, currentRadarName, alternativeRadars) ==
    LET pr == plotRadar(t, blips, currentRadarName, alternativeRadars) IN
    [attempt |-> i, via |-> via, delivered |-> TRUE,
     columns |-> input.columns, ids |-> input.ids,
     empty |-> empty, validations |-> validations, sanitized |-> Len(blips),
     exception |-> pr.exception, rendered |-> pr.rendered, radar |-> pr.radar,
     title |-> pr.title]

\* mutant: the default is the last sheet of the document, not the first
resolveNameLast(sheetName, sheetNames) ==
    IF sheetName = NoName THEN sheetNames[Len(sheetNames)] ELSE sheetName

\* sheetName after "if (!sheetName) sheetName = foundSheetNames[0]"
resolveName(sheetName, sheetNames) ==
    IF sheetName = NoName THEN sheetNames[1] ELSE sheetName

\* GoogleSheet.build.createBlips(__, tabletop), with its try/catch
createBlips(sheetName, input) ==
    LET name == resolveName(sheetName, FoundSheetNames) IN
    IF ~Has(FoundSheetNames, name)
    THEN threw(0, "public", FALSE, [columns |-> NoColumns, ids |-> <<>>], 0,
               TypeError("tabletop.sheets(sheetName) is undefined"))
    ELSE IF validate(input.columns) # NoException
    THEN threw(0, "public", TRUE, input, 1, validate(input.columns))
    ELSE plotted(0, "public", input, FALSE, 1, DocName \o Dash \o name,
                 [k \in 1..Len(input.ids) |-> sanitize(KeyedRow(input.ids[k], input.columns))],
                 name, FoundSheetNames)

\* CSVDocument.createBlips(data), with its try/catch
createBlipsCsv(input) ==
    IF validate(input.columns) # NoException
    THEN threw(0, "csv", TRUE, input, 1, validate(input.columns))
    ELSE plotted(0, "csv", input, FALSE, 1, FileName(CsvUrl),
                 [k \in 1..Len(input.ids) |-> sanitize(KeyedRow(input.ids[k], input.columns))],
                 CSVFile, <<>>)

\* values.forEach(...): the validator runs once per element of values, on values[0]
forEachValidate(values) ==
    IF values = <<>> THEN NoException ELSE validate(values[1])

\* mutant: the header row is not taken off the values, it is sanitized as a row
createBlipsForProtectedSheetNoShift(i, sheetName, values, input) ==
    LET name == resolveName(sheetName, FoundSheetNames) IN
    IF forEachValidate(values) # NoException
    THEN threw(i, "protected", TRUE, input, 1, forEachValidate(values))
    ELSE plotted(i, "protected", input, values = <<>>, Len(values),
                 DocName \o Dash \o name,
                 [k \in 1..Len(values) |-> sanitizeForProtectedSheet(values[k], values[1])],
                 name, FoundSheetNames)

\* createBlipsForProtectedSheet(documentTitle, values, sheetNames)
createBlipsForProtectedSheet(i, sheetName, values, input) ==
    LET name == resolveName(sheetName, FoundSheetNames) IN
    IF forEachValidate(values) # NoException
    THEN threw(i, "protected", TRUE, input, 1, forEachValidate(values))
    ELSE plotted(i, "protected", input, values = <<>>, Len(values),
                 DocName \o Dash \o name,
                 [k \in 1..(Len(values) - 1) |->
                     sanitizeForProtectedSheet(values[k + 1], values[1])],
                 name, FoundSheetNames)

(***************************** GoogleSheet **********************************)
\* the force argument of self.authenticate(false) in build, and of
\* sheet.authenticate(true, ...) in the click handler
autoForce == FALSE
clickForce == TRUE

\* mutant: the return after plotErrorMessage is lost, a missing sheet falls
\* through to authenticate
validateBranchFallThrough(error) ==
    IF error = "ok" THEN "tabletop" ELSE "authenticate"

\* the branch the callback of sheet.validate takes for its error argument
validateBranch(error) ==
    IF error = "ok" THEN "tabletop"
    ELSE IF error = "notfound" THEN "plotErrorMessage"
    ELSE "authenticate"

\* the callback of sheet.validate
ValidateCallback ==
    /\ route = "sheet"
    /\ att[0].pc = "validating"
    /\ \E error \in {"ok", "notfound", "other"} :
        /\ validated' = error
        /\ IF validateBranch(error) = "tabletop"
           THEN /\ att' = [att EXCEPT ![0].pc = "tabletop"]
                /\ UNCHANGED <<title, loading, logged, auths>>
           ELSE IF validateBranch(error) = "plotErrorMessage"
           THEN /\ PlotErrorMessage(0, SheetNotFoundError(SHEET_NOT_FOUND), att[0].sheetName)
                /\ auths' = auths
           ELSE /\ att' = [att EXCEPT ![0].pc = "loadGoogle", ![0].force = autoForce]
                /\ auths' = auths + 1
                /\ UNCHANGED <<title, loading, logged>>
    /\ UNCHANGED <<route, query, reqName, clicks, last>>

\* the callback of Tabletop.init
TabletopCallback ==
    /\ att[0].pc = "tabletop"
    /\ \E input \in DataInputs :
        Finish(0, createBlips(att[0].sheetName, input),
               resolveName(att[0].sheetName, FoundSheetNames))
    /\ UNCHANGED <<route, query, reqName, validated, clicks, auths>>

\* the callback of GoogleAuth.loadGoogle
LoadGoogleCallback ==
    /\ \E i \in Attempts :
        /\ att[i].pc = "loadGoogle"
        /\ att' = [att EXCEPT ![i].pc = "login"]
    /\ UNCHANGED <<route, query, reqName, validated, clicks, loading, title, logged, auths, last>>

\* the callback of GoogleAuth.login: processSheetResponse is called, then the
\* callback of authenticate, which removes the page whose button was clicked
LoginCallback ==
    /\ \E i \in Attempts :
        /\ att[i].pc = "login"
        /\ att' = [j \in Attempts |->
                    IF j = i THEN [att[j] EXCEPT !.pc = "response"]
                    ELSE IF j = att[i].parent THEN [att[j] EXCEPT !.page = "removed"]
                    ELSE att[j]]
    /\ UNCHANGED <<route, query, reqName, validated, clicks, loading, title, logged, auths, last>>

\* Sheet.processSheetResponse: what the createBlips callback throws is handed
\* to the error callback
handedToErrorCallback(run) == run.exception

\* processSheetResponse calls createBlipsForProtectedSheet with the title, the
\* values and the sheet names of the document
SheetResponse ==
    /\ \E i \in Attempts :
        /\ att[i].pc = "response"
        /\ Has(FoundSheetNames, resolveName(att[i].sheetName, FoundSheetNames))
        /\ \E input \in InputsOf(i), empty \in BOOLEAN :
            /\ empty => input = [columns |-> NoColumns, ids |-> <<>>]
            /\ LET run == createBlipsForProtectedSheet(i, att[i].sheetName,
                              IF empty THEN <<>> ELSE ValuesOf(input.ids, input.columns),
                              input)
               IN  /\ last' = run
                   /\ IF handedToErrorCallback(run) = NoException
                      THEN Plotted(i, run, resolveName(att[i].sheetName, FoundSheetNames))
                      ELSE IF isUnauthorized(handedToErrorCallback(run))
                      THEN PlotUnauthorizedErrorMessage(i, handedToErrorCallback(run))
                      ELSE PlotErrorMessage(i, handedToErrorCallback(run),
                                            resolveName(att[i].sheetName, FoundSheetNames))
    /\ UNCHANGED <<route, query, reqName, validated, clicks, auths>>

Statuses == {403, 404, 500}

\* the error callback of processSheetResponse
SheetResponseError ==
    /\ \E i \in Attempts, st \in Statuses :
        /\ att[i].pc = "response"
        /\ IF isUnauthorized(ResponseError(st))
           THEN PlotUnauthorizedErrorMessage(i, ResponseError(st))
           ELSE PlotErrorMessage(i, ResponseError(st), att[i].sheetName)
    /\ UNCHANGED <<route, query, reqName, validated, clicks, auths, last>>

\* click on SWITCH ACCOUNT of the unauthorized page of attempt i
SwitchAccountClick ==
    /\ clicks < MaxClicks
    /\ \E i \in Attempts :
        /\ att[i].page = "unauthorized"
        /\ att' = [att EXCEPT ![clicks + 1] =
                      [Idle EXCEPT !.pc = "loadGoogle", !.force = clickForce,
                                   !.parent = i, !.sheetName = reqName]]
    /\ clicks' = clicks + 1
    /\ auths' = auths + 1
    /\ UNCHANGED <<route, query, reqName, validated, loading, title, logged, last>>

(***************************** CSVDocument **********************************)
\* the callback of d3.csv with the parsed rows
CsvCallback ==
    /\ att[0].pc = "csv"
    /\ \E input \in DataInputs : Finish(0, createBlipsCsv(input), NoName)
    /\ UNCHANGED <<route, query, reqName, validated, clicks, auths>>

\* the callback of d3.csv when the request failed: data is null
CsvFailed ==
    /\ att[0].pc = "csv"
    /\ Finish(0, threw(0, "csv", FALSE, [columns |-> NoColumns, ids |-> <<>>], 0,
                       TypeError("data is null")), NoName)
    /\ UNCHANGED <<route, query, reqName, validated, clicks, auths>>

Next ==
    \/ Build
    \/ ValidateCallback
    \/ TabletopCallback
    \/ LoadGoogleCallback
    \/ LoginCallback
    \/ SheetResponse
    \/ SheetResponseError
    \/ SwitchAccountClick
    \/ CsvCallback
    \/ CsvFailed

Spec == Init /\ [][Next]_vars

\* the case of TabletopCallback in which the document has no rows
EmptyDocument == [columns |-> AllColumns, ids |-> <<>>]
TabletopCallbackEmpty ==
    /\ att[0].pc = "tabletop"
    /\ Finish(0, createBlips(att[0].sheetName, EmptyDocument),
              resolveName(att[0].sheetName, FoundSheetNames))
    /\ UNCHANGED <<route, query, reqName, validated, clicks, auths>>

\* the external callbacks fire: a pending callback is not withheld for ever.
\* A data callback is enabled with all its documents at once and is pending no
\* more after it fired with any of them, so its weak fairness is the weak
\* fairness of any one of its cases, and it is stated for one: the document
\* without rows for Tabletop, the failed request for d3.csv, the error
\* response for the Sheets request.
FairSpec ==
    /\ Spec
    /\ WF_vars(ValidateCallback)
    /\ WF_vars(TabletopCallbackEmpty)
    /\ WF_vars(LoadGoogleCallback)
    /\ WF_vars(LoginCallback)
    /\ WF_vars(SheetResponseError)
    /\ WF_vars(CsvFailed)

(***************************** properties ***********************************)
\* the column names lack a required column
LacksRequired(columnNames) == \E c \in RequiredFields : ~Has(columnNames, c)

\* some required cell of the row is empty or whitespace-only
HasBlankCell(id) == \E c \in RequiredFields : trim(CellOf(id, c)) = <<>>

\* the ring names of the rows, as the document holds them
RingNames(ids) == {CellOf(ids[k], cRing) : k \in 1..Len(ids)}

\* a data callback got the document and its columns passed the header check,
\* so that the rows went to assembly
Assembled == last.delivered /\ ~LacksRequired(last.columns)

\* the blips of the Radar handed to the renderer, quadrant after quadrant
RECURSIVE flatten(_, _)
flatten(quadrants, q) ==
    IF q > Len(quadrants) THEN <<>>
    ELSE quadrants[q].blips \o flatten(quadrants, q + 1)

Entries == flatten(last.radar.quadrants, 1)

\* the name and the quadrant of row k as an Entry carries them
NameOfRow(k) == trim(CellOf(last.ids[k], cName))
QuadrantOfRow(k) == trim(CellOf(last.ids[k], cQuadrant))
RingOfRow(k) == CellOf(last.ids[k], cRing)

\* the number of distinct ring names before the first row that has ring r
FirstSeen(r) ==
    LET first == CHOOSE k \in 1..Len(last.ids) :
                    /\ RingOfRow(k) = r
                    /\ \A j \in 1..(k - 1) : RingOfRow(j) # r
    IN  Cardinality({RingOfRow(j) : j \in 1..(first - 1)})

\* C1: every document with 5 or more distinct ring names fails in assembly with
\* the too-many-rings MalformedDataError; the renderer is not invoked, no Radar
\* exists, and the attempt ends on the error page.
C1_TooManyRings ==
    (Assembled /\ Cardinality(RingNames(last.ids)) >= 5) =>
        /\ last.exception = MalformedDataError(TOO_MANY_RINGS)
        /\ ~last.rendered
        /\ last.radar = NoRadar
        /\ att[last.attempt].outcome = "error"

C1_Witness ==
    /\ Assembled
    /\ Cardinality(RingNames(last.ids)) >= 5
    /\ last.via = "protected"
    /\ last.exception.message = TOO_MANY_RINGS
    /\ att[last.attempt].page = "error"

\* C2: every document with at most 4 distinct ring names is assembled and
\* rendered; every Entry carries the Ring named by its row, and that Ring's
\* order is the number of distinct ring names seen before its first row.
C2_RingOrder ==
    (Assembled /\ Cardinality(RingNames(last.ids)) <= 4) =>
        /\ last.rendered
        /\ last.exception = NoException
        /\ \A k \in 1..Len(last.ids) :
            \E e \in 1..Len(Entries) :
                /\ Entries[e].name = NameOfRow(k)
                /\ Entries[e].ring.name = RingOfRow(k)
                /\ Entries[e].ring.order = FirstSeen(RingOfRow(k))
        /\ \A e \in 1..Len(Entries) :
            \E k \in 1..Len(last.ids) :
                /\ Entries[e].name = NameOfRow(k)
                /\ Entries[e].ring = Ring(RingOfRow(k), FirstSeen(RingOfRow(k)))

\* a Radar whose first-seen ring order is not the alphabetical one
C2_Witness ==
    /\ last.rendered
    /\ \E e1, e2, e3 \in 1..Len(Entries) :
        /\ Entries[e1].ring = Ring(Trial, 0)
        /\ Entries[e2].ring = Ring(Hold, 1)
        /\ Entries[e3].ring = Ring(Adopt, 2)

\* the row an Entry was made from
RowOf(entry) == CHOOSE k \in 1..Len(last.ids) : NameOfRow(k) = entry.name

\* C3: a rendered Radar holds exactly one Entry per row: as many Entries as
\* rows, every row in exactly one place of exactly one Quadrant, and the
\* Entries of a Quadrant in the order of their rows.
C3_OneEntryPerRow ==
    last.rendered =>
        LET Q == last.radar.quadrants IN
        /\ Len(Entries) = Len(last.ids)
        /\ \A k \in 1..Len(last.ids) :
            Cardinality(UNION {{<<q, p>> : p \in {x \in 1..Len(Q[q].blips) :
                                                      Q[q].blips[x].name = NameOfRow(k)}} :
                               q \in 1..Len(Q)}) = 1
        /\ \A q \in 1..Len(Q) :
            \A p1, p2 \in 1..Len(Q[q].blips) :
                p1 < p2 => RowOf(Q[q].blips[p1]) < RowOf(Q[q].blips[p2])

C3_Witness ==
    /\ last.rendered
    /\ Len(last.ids) >= 4
    /\ Len(last.radar.quadrants) = 2
    /\ \A q \in 1..2 : Len(last.radar.quadrants[q].blips) >= 2

\* the validator refused the document
ValidatorFailed ==
    /\ last.exception.type = "MalformedDataError"
    /\ last.exception.message \in {MISSING_HEADERS, MISSING_CONTENT}

\* C4: on every path, a document whose column names lack a required column
\* fails in the ContentValidator before any row is sanitized, also when the
\* protected source returns an empty or a header-only value list.
C4_ValidatedBeforeSanitized ==
    (last.delivered /\ LacksRequired(last.columns)) =>
        /\ ValidatorFailed
        /\ last.sanitized = 0
        /\ ~last.rendered

\* C5: a document in which some required cell is empty or whitespace-only
\* fails validation, and no Entry is created for any of its rows.
C5_BlankCellRejected ==
    (last.delivered /\ \E k \in 1..Len(last.ids) : HasBlankCell(last.ids[k])) =>
        /\ last.exception.type = "MalformedDataError"
        /\ last.sanitized = 0
        /\ ~last.rendered

\* the sheet names a rendered Radar must carry, by source
ExpectedAlternatives == IF last.via = "csv" THEN <<>> ELSE FoundSheetNames
ExpectedCurrentSheet ==
    IF last.via = "csv" THEN CSVFile
    ELSE IF reqName = NoName THEN FoundSheetNames[1]
    ELSE reqName

C6_Complete ==
    last.rendered =>
        /\ Len(Entries) = Len(last.ids)
        /\ \A k \in 1..Len(last.ids) : \E e \in 1..Len(Entries) : Entries[e].name = NameOfRow(k)
        /\ last.radar.alternatives = ExpectedAlternatives
        /\ last.radar.currentSheet = ExpectedCurrentSheet
        /\ last.radar.currentSheet # NoName
        /\ att[last.attempt].outcome = "rendered"

C6_ErrorIsFinal ==
    \A i \in Attempts :
        att[i].outcome \in {"error", "unauthorized"} =>
            /\ att'[i].outcome = att[i].outcome
            /\ (last'.attempt = i => ~last'.rendered)

\* C6: the renderer only ever gets a complete Radar (every Entry of every
\* Quadrant, all alternative sheet names, the current sheet name), and an
\* attempt that has ended on an error page never gets to the renderer.
C6_FullRadarOrNone == [](C6_Complete) /\ [][C6_ErrorIsFinal]_vars

\* an attempt ended on an error page, and a later one rendered a Radar
C6_Witness ==
    /\ last.rendered
    /\ last.attempt = 1
    /\ att[0].outcome = "unauthorized"
    /\ Len(last.ids) >= 1
    /\ last.radar.alternatives = FoundSheetNames

\* the public source reported that the document or the requested tab is missing
ReportedMissing ==
    \/ validated = "notfound"
    \/ /\ validated = "ok"
       /\ att[0].pc = "done"
       /\ reqName # NoName
       /\ ~Has(FoundSheetNames, reqName)

\* C7: when the public source reports that the document or the requested tab
\* does not exist, the build is classified SheetNotFoundError: the
\* sheet-not-found message is shown, no Radar, no authorization handshake.
C7_NotFound ==
    ReportedMissing =>
        /\ att[0].outcome = "error"
        /\ att[0].exc.type = "SheetNotFoundError"
        /\ att[0].msg = <<SHEET_NOT_FOUND>>
        /\ ~last.rendered
        /\ auths = 0

\* C8: the unauthorized page is shown exactly for status 403 and any other
\* status goes to the generic error page; no Radar comes of a denied attempt;
\* the automatic authentication uses force = false and every switch-account
\* click restarts the protected path with force = true.
C8_Unauthorized ==
    \A i \in Attempts :
        /\ att[i].outcome = "unauthorized" <=> (att[i].pc = "done" /\ att[i].status = 403)
        /\ att[i].outcome = "unauthorized" => att[i].page \in {"unauthorized", "removed"}
        /\ (att[i].pc = "done" /\ att[i].status \notin {0, 403}) =>
                (att[i].page = "error" /\ att[i].msg = <<GENERIC>>)
        /\ (att[i].outcome = "unauthorized" /\ last.attempt = i) => ~last.rendered
        /\ (i = 0 /\ att[i].pc \in {"loadGoogle", "login", "response"}) => att[i].force = FALSE
        /\ (i > 0 /\ att[i].pc # "idle") =>
                /\ att[i].force = TRUE
                /\ att[att[i].parent].outcome = "unauthorized"

C8_Witness ==
    /\ att[0].outcome = "unauthorized"
    /\ att[0].status = 403
    /\ att[0].force = FALSE
    /\ att[1].pc = "response"
    /\ att[1].force = TRUE
    /\ att[0].page = "removed"

\* C9: on every path a MalformedDataError of the validator or of assembly
\* reaches plotErrorMessage as it was thrown, and the page shows its message.
C9_MalformedShown ==
    last.exception.type = "MalformedDataError" =>
        /\ att[last.attempt].outcome = "error"
        /\ att[last.attempt].page = "error"
        /\ att[last.attempt].exc = last.exception
        /\ att[last.attempt].msg = <<GENERIC, last.exception.message>>

C9_Witness ==
    /\ last.via = "protected"
    /\ last.exception = MalformedDataError(MISSING_HEADERS)
    /\ att[last.attempt].msg = <<GENERIC, MISSING_HEADERS>>

\* C10 as stated: an authorization attempt only ever starts with a user action
\* (the switch-account click), never on the pipeline's own account.
C10_NoAutomaticAttempt == [][auths' # auths => clicks' = clicks + 1]_vars

C10_Step ==
    /\ auths' # auths =>
        \/ clicks' = clicks + 1
        \/ /\ auths = 0
           /\ validated = "pending"
           /\ validated' = "other"
           /\ att'[0].force = FALSE
    /\ \A i \in Attempts : att[i].pc = "done" => att'[i].pc = "done"
    /\ validated = "notfound" => auths' = auths

\* C10 amended: the only automatic attempt is the fallback of the public path,
\* once, when sheet.validate fails with an error that is not
\* SheetNotFoundError; every other authenticate call is a switch-account click,
\* and an attempt that has ended does nothing further.
C10_OnlyTheFallbackIsAutomatic == [][C10_Step]_vars

C10_Witness ==
    /\ validated = "other"
    /\ auths = 2
    /\ clicks = 1
    /\ att[0].outcome = "unauthorized"

\* the first letter upper-cased, the rest of the string as it is
FirstUpper(s) == IF s = <<>> THEN s ELSE <<toUpperChar(Head(s))>> \o Tail(s)

\* the distinct quadrant values of the rows, in the order of first encounter
QuadrantValues ==
    LET vals == [k \in 1..Len(last.ids) |-> QuadrantOfRow(k)]
    IN  pick(vals, {k \in 1..Len(vals) : \A j \in 1..(k - 1) : vals[j] # vals[k]}, 1)

\* C11: a rendered Radar has exactly one Quadrant per distinct quadrant value
\* of the rows, in the order of first encounter, and each Quadrant is named by
\* its value with the first letter upper-cased and the rest unchanged.
C11_QuadrantPerValue ==
    last.rendered =>
        /\ Len(last.radar.quadrants) = Len(QuadrantValues)
        /\ \A q \in 1..Len(QuadrantValues) :
                last.radar.quadrants[q].name = FirstUpper(QuadrantValues[q])

\* the final path segment of CsvUrl, decoded, without its ".csv"
CsvTitle == <<"m","y"," ","r">>

\* C12: the title of a rendered CSV radar is the decoded final path segment of
\* the URL without its trailing ".csv"; ".csv" is stripped for a CSV source
\* only, so the title of a spreadsheet radar is the document name, ' - ' and
\* the sheet name, unchanged.
C12_TitleDerivation ==
    last.rendered =>
        /\ last.via = "csv" => last.title = CsvTitle
        /\ last.via # "csv" => last.title = DocName \o Dash \o ExpectedCurrentSheet

\* C13: a Radar rendered from a spreadsheet (public or protected) carries as
\* current sheet the requested sheet name, or the first sheet of the document
\* when none was requested, and as alternatives all sheets of the document in
\* their order; a Radar rendered from a CSV file has no alternatives. Both
\* fields are on the Radar when the renderer gets it.
C13_SheetNames ==
    last.rendered =>
        /\ last.via \in {"public", "protected"} =>
                /\ reqName = NoName => last.radar.currentSheet = FoundSheetNames[1]
                /\ reqName # NoName => last.radar.currentSheet = reqName
                /\ last.radar.alternatives = FoundSheetNames
        /\ last.via = "csv" => last.radar.alternatives = <<>>

\* the protected path rendered the first sheet by default
C13_Witness ==
    /\ last.rendered
    /\ last.via = "protected"
    /\ reqName = NoName
    /\ last.radar.currentSheet = S1
    /\ last.radar.alternatives = <<S1, S2>>

\* attempt i ended on the error page for a failure that is neither a
\* MalformedDataError nor a SheetNotFoundError (nor a 403, which has its own page)
Unknown(i) ==
    /\ att[i].outcome = "error"
    /\ att[i].exc.type \notin {"MalformedDataError", "SheetNotFoundError"}

\* C14: every unknown failure is logged, and the page shows the generic text
\* and nothing else: the same message for any two unknown failures, whatever
\* the exceptions hold.
C14_UnknownIsGeneric ==
    /\ \A i \in Attempts : Unknown(i) => (att[i].page = "error" /\ att[i].msg = <<GENERIC>>)
    /\ \A i, j \in Attempts : (Unknown(i) /\ Unknown(j)) => att[i].msg = att[j].msg
    /\ logged = Cardinality({i \in Attempts : Unknown(i)})

\* the protected path failed with a server error after a denied first attempt
C14_Witness ==
    /\ att[0].outcome = "unauthorized"
    /\ Unknown(1)
    /\ att[1].exc = ResponseError(500)
    /\ att[1].msg = <<GENERIC>>
    /\ logged = 1

\* the document of the last run, as each spreadsheet path gets it
LastInput == [columns |-> last.columns, ids |-> last.ids]
AsPublic == createBlips(reqName, LastInput)
AsProtected ==
    createBlipsForProtectedSheet(last.attempt, reqName,
                                 ValuesOf(last.ids, last.columns), LastInput)

\* C15: every row of a document gives the same record in the keyed-object
\* shape (sanitize) and in the header+array shape (sanitizeForProtectedSheet
\* with the header row taken off the values), and the document gives the same
\* Quadrants, Rings and Entries on the public and on the protected path.
C15_ShapesAgree ==
    (last.delivered /\ last.via \in {"public", "protected"}) =>
        /\ \A k \in 1..Len(last.ids) :
                sanitize(KeyedRow(last.ids[k], last.columns))
                    = sanitizeForProtectedSheet(ArrayRow(last.ids[k], last.columns), last.columns)
        /\ AsPublic.radar.quadrants = AsProtected.radar.quadrants
        /\ last.radar.quadrants = AsPublic.radar.quadrants
        /\ last.radar.quadrants = AsProtected.radar.quadrants

\* the protected path rendered a document whose columns are not in the order
\* of the fields and whose cells need trimming
C15_Witness ==
    /\ last.rendered
    /\ last.via = "protected"
    /\ last.columns = PermutedCols
    /\ Len(last.ids) = 2
    /\ \E k \in 1..2 : CellOf(last.ids[k], cName) # NameOfRow(k)
    /\ Len(Entries) = 2

\* the step in which attempt i ends gives it one outcome: the renderer got a
\* Radar and no error page went up, or one error page went up and the renderer
\* got nothing; the loading indicator is gone
C16_EndsOnce(i) ==
    (att[i].pc # "done" /\ att'[i].pc = "done") =>
        /\ ~loading'
        /\ \/ /\ att'[i].outcome = "rendered"
              /\ att'[i].page = "none"
              /\ last'.attempt = i
              /\ last'.rendered
           \/ /\ att'[i].outcome \in {"error", "unauthorized"}
              /\ att'[i].page = att'[i].outcome
              /\ ~(last'.attempt = i /\ last'.rendered)

C16_StaysEnded(i) ==
    att[i].pc = "done" => (att'[i].pc = "done" /\ att'[i].outcome = att[i].outcome)

C16_Step == \A i \in Attempts : C16_EndsOnce(i) /\ C16_StaysEnded(i)

\* C16: when the callbacks fire, a build that showed the loading indicator
\* ends, on every path, with exactly one outcome (the renderer got a Radar, or
\* one error page, generic or unauthorized, is shown) and with the loading
\* indicator removed.
C16_OneOutcome ==
    /\ [][C16_Step]_vars
    /\ [](loading => att[0].pc \notin {"idle", "done"})
    /\ (loading ~> (att[0].pc = "done" /\ ~loading))

\* the build fell back to the protected path and rendered there
C16_Witness ==
    /\ validated = "other"
    /\ att[0].pc = "done"
    /\ att[0].outcome = "rendered"
    /\ last.attempt = 0
    /\ last.via = "protected"
    /\ ~loading

\* what build read from the address
DomainPresent == query.domainName # Null
SheetIdPresent == query.sheetId # Undefined /\ query.sheetId # <<>>
WantsCsv == DomainPresent /\ SheetIdPresent /\ endsWith(query.sheetId, <<"c","s","v">>)
WantsSheet ==
    DomainPresent /\ endsWith(query.domainName, GoogleDomain) /\ SheetIdPresent /\ ~WantsCsv

\* C17: GoogleSheetInput.build never throws and takes exactly one of three
\* ways for every domain name (present or not) and every sheetId (absent,
\* present, ending in 'csv'): the CSV build when a domain is present and
\* sheetId ends in 'csv', the spreadsheet build when the domain ends in
\* 'google.com' and sheetId is present, the input form in every other case,
\* also when there is no sheetId parameter.
C17_DispatchTotal ==
    route # "start" =>
        /\ route \in {"csv", "sheet", "form"}
        /\ route = "csv" <=> WantsCsv
        /\ route = "sheet" <=> WantsSheet
        /\ route = "form" <=> (~WantsCsv /\ ~WantsSheet)

\* the title is a radar title only while some build has rendered
C18_RadarTitleIsRendered ==
    title \notin {BlankTitle, DefaultTitle} => \E i \in Attempts : att[i].outcome = "rendered"

\* a build that ends on an error page leaves the default title, and the title
\* becomes a radar title only in the step that hands that Radar to the renderer
C18_Step ==
    /\ \A i \in Attempts :
            (att[i].pc # "done" /\ att'[i].outcome \in {"error", "unauthorized"}) =>
                title' = DefaultTitle
    /\ (title' # title /\ title' # DefaultTitle) =>
            \E i \in Attempts :
                /\ att[i].pc # "done"
                /\ att'[i].outcome = "rendered"
                /\ last'.attempt = i
                /\ last'.rendered
                /\ title' = last'.title

\* C18: the page title is a radar title only if that build handed a Radar to
\* the renderer; after a build that ends on an error page, also one that
\* failed with too many rings after plotRadar had set the title, the page
\* title is the default title.
C18_TitleFollowsOutcome == [](C18_RadarTitleIsRendered) /\ [][C18_Step]_vars

\* plotRadar set the title and threw for too many rings; the error page is up
\* under the default title
C18_Witness ==
    /\ last.exception = MalformedDataError(TOO_MANY_RINGS)
    /\ last.via = "protected"
    /\ last.title \notin {BlankTitle, DefaultTitle}
    /\ att[last.attempt].outcome = "error"
    /\ title = DefaultTitle

====
